---- MODULE Spec2Model ----
(***************************************************************************)
(* Preprocessing of the cvc framework headers.                             *)
(*                                                                         *)
(* The repository's sources are three headers: the framework umbrella      *)
(* header cvc.h (guard CVC_UMBRELLA_H), the framework header crypto.h      *)
(* (guard CRYPTO_H) and the library header include/cvc.h (guard CVC_H).    *)
(* The umbrella header and crypto.h include each other.  The model is the  *)
(* C preprocessor run over a translation unit that includes these headers: *)
(* one action per kind of line, a stack of open files, the set of defined  *)
(* macros, and what has been emitted so far.                               *)
(*                                                                         *)
(* The wrapped libraries' headers (core.h, ecdh_*.h, ecp_*.h, eddsa_*.h,   *)
(* l8w8jwt/*.h) are not part of the sources; an #include of one of them is *)
(* a single step that records the header as included.                      *)
(***************************************************************************)
EXTENDS Naturals, Sequences, FiniteSets

\* Number of top-level #include lines of the translation unit.
MaxTopIncludes == 2

\* Bound on the depth of nested #include files the model follows.
MaxDepth == 4

L(op, arg) == [op |-> op, arg |-> arg]

\* cvc.xcframework/.../Headers/cvc.h, line by line (comments and blank lines
\* dropped).
UmbrellaH ==
  << L("ifndef",  "CVC_UMBRELLA_H"),
     L("define",  "CVC_UMBRELLA_H"),
     L("include", "crypto.h"),
     L("include", "core.h"),
     L("include", "ecdh_Ed25519.h"),
     L("include", "ecdh_NIST256.h"),
     L("include", "ecp_Ed25519.h"),
     L("include", "ecp_NIST256.h"),
     L("include", "eddsa_Ed25519.h"),
     L("include", "eddsa_NIST256.h"),
     L("include", "l8w8jwt/encode.h"),
     L("include", "l8w8jwt/decode.h"),
     L("include", "l8w8jwt/algs.h"),
     L("endif",   "CVC_UMBRELLA_H") >>

\* crypto.h with the #define of its guard left out.
CryptoH_NoDefine ==
  << L("ifndef",  "CRYPTO_H"),
     L("include", "cvc.h"),
     L("ifdef",   "__cplusplus"),
     L("text",    "extern C {"),
     L("endif",   "__cplusplus"),
     L("decl",    "cvc_hello_world"),
     L("decl",    "cvc_test_miracl_big_add"),
     L("ifdef",   "__cplusplus"),
     L("text",    "}"),
     L("endif",   "__cplusplus"),
     L("endif",   "CRYPTO_H") >>

\* cvc.xcframework/.../Headers/crypto.h, line by line.
CryptoH ==
  << L("ifndef",  "CRYPTO_H"),
     L("define",  "CRYPTO_H"),
     L("include", "cvc.h"),
     L("ifdef",   "__cplusplus"),
     L("text",    "extern C {"),
     L("endif",   "__cplusplus"),
     L("decl",    "cvc_hello_world"),
     L("decl",    "cvc_test_miracl_big_add"),
     L("ifdef",   "__cplusplus"),
     L("text",    "}"),
     L("endif",   "__cplusplus"),
     L("endif",   "CRYPTO_H") >>

\* include/cvc.h, line by line.
CvcH ==
  << L("ifndef",  "CVC_H"),
     L("define",  "CVC_H"),
     L("ifdef",   "__cplusplus"),
     L("text",    "extern C {"),
     L("endif",   "__cplusplus"),
     L("include", "core.h"),
     L("include", "ecdh_Ed25519.h"),
     L("include", "ecdh_NIST256.h"),
     L("include", "ecp_Ed25519.h"),
     L("include", "ecp_NIST256.h"),
     L("include", "eddsa_Ed25519.h"),
     L("include", "eddsa_NIST256.h"),
     L("include", "l8w8jwt/encode.h"),
     L("include", "l8w8jwt/decode.h"),
     L("include", "l8w8jwt/algs.h"),
     L("ifdef",   "__cplusplus"),
     L("text",    "}"),
     L("endif",   "__cplusplus"),
     L("endif",   "CVC_H") >>

\* The files of the repository, by identity.
Files == {"umbrella", "crypto", "cvc"}

Content(f) ==
  CASE f = "umbrella" -> UmbrellaH
    [] f = "crypto"   -> CryptoH
    [] f = "cvc"      -> CvcH

\* Headers of the wrapped libraries, re-exported by the umbrella headers.
LibHeaders ==
  { "core.h", "ecdh_Ed25519.h", "ecdh_NIST256.h", "ecp_Ed25519.h",
    "ecp_NIST256.h", "eddsa_Ed25519.h", "eddsa_NIST256.h",
    "l8w8jwt/encode.h", "l8w8jwt/decode.h", "l8w8jwt/algs.h" }

\* Resolution of a quoted #include found in file `from`: the directory of the
\* including file is searched first, so inside the framework's Headers
\* directory "crypto.h" and "cvc.h" name the framework's own two headers.
Resolve(from, name) ==
  CASE name = "crypto.h" /\ from \in {"umbrella", "crypto"} -> "crypto"
    [] name = "cvc.h" /\ from \in {"umbrella", "crypto"} -> "umbrella"
    [] OTHER -> "lib"

VARIABLES
  tu,        \* the top-level #include lines of the translation unit (file ids)
  next,      \* index in tu of the next top-level #include to process
  stack,     \* open files, innermost last: [file, pc, skip]
  macros,    \* the defined macros
  bodies,    \* per file, how many times the body inside its guard was entered
  included,  \* library headers included so far
  decls,     \* function declarations emitted so far
  status     \* "running" or "done"

vars == <<tu, next, stack, macros, bodies, included, decls, status>>

Top == stack[Len(stack)]
Line == Content(Top.file)[Top.pc]
AtLine == status = "running" /\ stack # <<>> /\ Top.pc <= Len(Content(Top.file))
Active == AtLine /\ Top.skip = 0

\* Replace the innermost frame.
SetTop(fr) == [stack EXCEPT ![Len(stack)] = fr]
Advance == SetTop([Top EXCEPT !.pc = @ + 1])

TopSeqs == UNION { [1..n -> Files] : n \in 1..MaxTopIncludes }

Init ==
  /\ tu \in TopSeqs
  /\ next = 1
  /\ \E cpp \in BOOLEAN : macros = IF cpp THEN {"__cplusplus"} ELSE {}
  /\ stack = <<>>
  /\ bodies = [f \in Files |-> 0]
  /\ included = {}
  /\ decls = {}
  /\ status = "running"

\* A top-level #include of the translation unit opens the next header.
OpenTop ==
  /\ status = "running" /\ stack = <<>> /\ next <= Len(tu)
  /\ stack' = << [file |-> tu[next], pc |-> 1, skip |-> 0] >>
  /\ next' = next + 1
  /\ UNCHANGED <<tu, macros, bodies, included, decls, status>>

\* #ifndef / #ifdef in an active region: enter the region or start skipping.
\* Entering the region of a file's own guard (its first line) is entering
\* the file's body.
Conditional ==
  /\ Active /\ Line.op \in {"ifndef", "ifdef"}
  /\ LET holds == IF Line.op = "ifndef" THEN Line.arg \notin macros
                                        ELSE Line.arg \in macros
     IN /\ stack' = SetTop([Top EXCEPT !.pc = @ + 1,
                                       !.skip = IF holds THEN 0 ELSE 1])
        /\ bodies' = IF holds /\ Top.pc = 1
                       THEN [bodies EXCEPT ![Top.file] = @ + 1]
                       ELSE bodies
  /\ UNCHANGED <<tu, next, macros, included, decls, status>>

\* #define in an active region.
Define ==
  /\ Active /\ Line.op = "define"
  /\ macros' = macros \cup {Line.arg}
  /\ stack' = Advance
  /\ UNCHANGED <<tu, next, bodies, included, decls, status>>

\* #include of one of the repository's headers: the file is opened on top of
\* the including one, which resumes at its next line afterwards.
IncludeOwn ==
  /\ Active /\ Line.op = "include"
  /\ Resolve(Top.file, Line.arg) # "lib"
  /\ Len(stack) < MaxDepth
  /\ stack' = Append(Advance,
                     [file |-> Resolve(Top.file, Line.arg), pc |-> 1, skip |-> 0])
  /\ UNCHANGED <<tu, next, macros, bodies, included, decls, status>>

\* #include of a header of the wrapped libraries.
IncludeLib ==
  /\ Active /\ Line.op = "include"
  /\ Resolve(Top.file, Line.arg) = "lib"
  /\ included' = included \cup {Line.arg}
  /\ stack' = Advance
  /\ UNCHANGED <<tu, next, macros, bodies, decls, status>>

\* A function declaration in an active region.
Declare ==
  /\ Active /\ Line.op = "decl"
  /\ decls' = decls \cup {Line.arg}
  /\ stack' = Advance
  /\ UNCHANGED <<tu, next, macros, bodies, included, status>>

\* Any other text in an active region (the extern "C" braces).
Text ==
  /\ Active /\ Line.op = "text"
  /\ stack' = Advance
  /\ UNCHANGED <<tu, next, macros, bodies, included, decls, status>>

\* #endif in an active region.
Endif ==
  /\ Active /\ Line.op = "endif"
  /\ stack' = Advance
  /\ UNCHANGED <<tu, next, macros, bodies, included, decls, status>>

\* A line in a skipped region: only conditional nesting is tracked.
SkipLine ==
  /\ AtLine /\ Top.skip > 0
  /\ LET d == CASE Line.op \in {"ifndef", "ifdef"} -> Top.skip + 1
                [] Line.op = "endif" -> Top.skip - 1
                [] OTHER -> Top.skip
     IN stack' = SetTop([Top EXCEPT !.pc = @ + 1, !.skip = d])
  /\ UNCHANGED <<tu, next, macros, bodies, included, decls, status>>

\* End of file: back to the including file.
CloseFile ==
  /\ status = "running" /\ stack # <<>>
  /\ Top.pc > Len(Content(Top.file))
  /\ stack' = SubSeq(stack, 1, Len(stack) - 1)
  /\ UNCHANGED <<tu, next, macros, bodies, included, decls, status>>

\* End of the translation unit.
Finish ==
  /\ status = "running" /\ stack = <<>> /\ next > Len(tu)
  /\ status' = "done"
  /\ UNCHANGED <<tu, next, stack, macros, bodies, included, decls>>

Next ==
  \/ OpenTop
  \/ Conditional
  \/ Define
  \/ IncludeOwn
  \/ IncludeLib
  \/ Declare
  \/ Text
  \/ Endif
  \/ SkipLine
  \/ CloseFile
  \/ Finish

Spec == Init /\ [][Next]_vars

\* Preprocessing is a sequential run: whenever a step is possible it is taken.
FairSpec == Spec /\ WF_vars(Next)

\* The translation unit starts preprocessing from the framework umbrella
\* header or from crypto.h.
StartsFromPair == \E i \in 1..Len(tu) : tu[i] \in {"umbrella", "crypto"}

\* Both declarations of crypto.h.
CryptoDecls == {"cvc_hello_world", "cvc_test_miracl_big_add"}

\* What holds of the mutual inclusion at every moment and at the end.
MutualInclusionSafe ==
  /\ bodies["umbrella"] <= 1
  /\ bodies["crypto"] <= 1
  /\ Len(stack) < MaxDepth
  /\ (status = "done" /\ StartsFromPair) =>
        /\ bodies["umbrella"] = 1
        /\ bodies["crypto"] = 1
        /\ decls = CryptoDecls
        /\ LibHeaders \subseteq included

\* C10: the mutual inclusion between the framework umbrella header cvc.h and
\* crypto.h always terminates: preprocessing of every translation unit
\* reaches its end, the include guards CVC_UMBRELLA_H and CRYPTO_H let each
\* header's body be entered at most once at any moment, and when the unit
\* started from either header, at the end each body has been processed
\* exactly once, cvc_hello_world and cvc_test_miracl_big_add are declared and
\* every re-exported library header has been included.
C10_MutualInclusionTerminates ==
  /\ []MutualInclusionSafe
  /\ <>(status = "done")

\* A finished translation unit that started from crypto.h and went through
\* the nested re-inclusion of crypto.h from the umbrella header.
C10_Witness ==
  /\ status = "done"
  /\ tu[1] = "crypto"
  /\ bodies["umbrella"] = 1
  /\ bodies["crypto"] = 1
  /\ decls = CryptoDecls
  /\ LibHeaders \subseteq included

====
